---- MODULE Spec2Model ----
(***************************************************************************)
(* AutoSection (code.ts): a Figma plugin that wraps positioned elements in *)
(* a Section, re-lays them out with padding and spacing, and stores the    *)
(* applied settings on the Section for later re-application.               *)
(*                                                                         *)
(* Numbers are JavaScript doubles in the source.  The model keeps them as  *)
(* integers counted in half pixels (U units per pixel): sizes are whole    *)
(* pixels, so the only fractions the code produces, height / 2 and         *)
(* width / 2, are exact.                                                   *)
(***************************************************************************)
EXTENDS Integers, Sequences, FiniteSets, TLC

U == 2
Px(n) == n * U

\* ------------------------------------------------------------ bounds
\* Document-changing operations (create, update, refresh, update-all) in one
\* behaviour of Spec, and in one behaviour of SpecLayout.
MaxApplies == 1
MaxRelayouts == 3
\* Largest number of nodes the user picks when changing the selection.
MaxSel == 3

\* ------------------------------------------------------------ values
None == <<>>
Some(v) == <<v>>

Range(s) == {s[i] : i \in 1..Len(s)}
SetMin(S) == CHOOSE m \in S : \A k \in S : m <= k
SetMax(S) == CHOOSE m \in S : \A k \in S : m >= k
Abs(v) == IF v < 0 THEN -v ELSE v
\* Math.round: the nearest whole pixel, halves rounded up.
MathRound(v) == ((v + (U \div 2)) \div U) * U

\* ------------------------------------------------------------ nodes
Page == "page"
RectIds == {"r1", "r2", "r3", "r4", "r5", "r6"}
SectionIds == {"s1", "s2"}
OtherIds == {"n0"}
NodeOrder == <<"r1", "r2", "r3", "r4", "r5", "r6", "s1", "s2", "n0">>
SectionOrder == <<"s1", "s2">>
PosIds == RectIds \cup SectionIds
Containers == {Page} \cup SectionIds

NodeType(n) ==
  IF n \in SectionIds THEN "SECTION" ELSE IF n \in RectIds THEN "FRAME" ELSE "OTHER"

hasPositionAndSize(n) == n \in PosIds

\* ------------------------------------------------------------ settings
Pad(t, r, b, l) == [top |-> Px(t), right |-> Px(r), bottom |-> Px(b), left |-> Px(l)]

\* The text kept under the key 'autosection-settings': empty, a JSON object
\* with the four fields, a JSON object without them, or text that is no JSON.
NoData == [kind |-> "empty", settings |-> None]
Garbage == [kind |-> "garbage", settings |-> None]
EmptyObject == [kind |-> "object", settings |-> None]

JSONstringify(msg) ==
  [kind |-> "object",
   settings |-> Some([padding |-> msg.padding, spacing |-> msg.spacing,
                      layout |-> msg.layout, alignment |-> msg.alignment])]

\* Variant: text that is no JSON parses to an object without fields.
JSONparseLenient(data) == [ok |-> TRUE, settings |-> data.settings]

\* JSON.parse: throws on text that is no JSON (ok = FALSE).
JSONparse(data) ==
  IF data.kind = "object" THEN [ok |-> TRUE, settings |-> data.settings]
  ELSE [ok |-> FALSE, settings |-> None]

\* ------------------------------------------------------------ document
\* A document d: children (node order under the page and each section), the
\* numbers x, y, width, height of each positioned node (x and y of a section's
\* child are relative to the section), the plugin data of each section, and
\* the nodes whose position setters throw.
Live(d) == UNION {Range(d.children[c]) : c \in Containers}

ParentOf(d, n) == CHOOSE c \in Containers : n \in Range(d.children[c])

Remove(s, n) == SelectSeq(s, LAMBDA m : m # n)

\* parent.appendChild(node): the node leaves its parent and becomes the last
\* child of the new one; its x and y numbers stay as they are.
appendChild(d, c, n) ==
  [d EXCEPT !.children = [k \in Containers |->
      IF k = c THEN Append(Remove(d.children[k], n), n)
      ELSE Remove(d.children[k], n)]]

RECURSIVE appendAll(_, _, _)
appendAll(d, c, frames) ==
  IF frames = <<>> THEN d
  ELSE appendAll(appendChild(d, c, Head(frames)), c, Tail(frames))

findFramesInSection(d, section) ==
  SelectSeq(d.children[section], hasPositionAndSize)

RECURSIVE findParentSection(_, _)
findParentSection(d, node) ==
  IF NodeType(node) = "SECTION" THEN Some(node)
  ELSE IF ParentOf(d, node) = Page THEN None
  ELSE findParentSection(d, ParentOf(d, node))

\* ------------------------------------------------------------ geometry
Right(d, f) == d.x[f] + d.width[f]
Bottom(d, f) == d.y[f] + d.height[f]

BoundingBox(d, frames) ==
  [minX |-> SetMin({d.x[f] : f \in Range(frames)}),
   minY |-> SetMin({d.y[f] : f \in Range(frames)}),
   maxX |-> SetMax({Right(d, f) : f \in Range(frames)}),
   maxY |-> SetMax({Bottom(d, f) : f \in Range(frames)})]

\* Array.prototype.sort with a comparator that is a consistent ordering:
\* stable insertion of each element after the last element not above it.
RECURSIVE InsertBy(_, _, _, _)
InsertBy(key, s, e, i) ==
  IF i = 0 \/ key[s[i]] <= key[e]
  THEN SubSeq(s, 1, i) \o <<e>> \o SubSeq(s, i + 1, Len(s))
  ELSE InsertBy(key, s, e, i - 1)

RECURSIVE SortBy(_, _)
SortBy(key, s) ==
  IF s = <<>> THEN <<>>
  ELSE LET front == SortBy(key, SubSeq(s, 1, Len(s) - 1))
       IN InsertBy(key, front, s[Len(s)], Len(front))

\* ------------------------------------------------------------ arrangement
\* A frame whose position setter throws is skipped by the try/catch around
\* each frame: nothing of it is written and the cursor does not advance.
\* Variant: the loop ends at the first frame whose position write throws.
RECURSIVE placeHorizontalUntilThrow(_, _, _, _, _, _)
placeHorizontalUntilThrow(d, sortedFrames, currentX, baseY, spacing, alignment) ==
  IF sortedFrames = <<>> \/ Head(sortedFrames) \in d.locked THEN d
  ELSE LET frame == Head(sortedFrames)
           newY == IF alignment = "top" THEN baseY
                   ELSE IF alignment = "center" THEN baseY - (d.height[frame] \div 2)
                   ELSE baseY - d.height[frame]
       IN placeHorizontalUntilThrow([d EXCEPT !.x[frame] = currentX, !.y[frame] = newY],
                                    Tail(sortedFrames),
                                    currentX + d.width[frame] + spacing,
                                    baseY, spacing, alignment)

RECURSIVE placeHorizontal(_, _, _, _, _, _)
placeHorizontal(d, sortedFrames, currentX, baseY, spacing, alignment) ==
  IF sortedFrames = <<>> THEN d
  ELSE LET frame == Head(sortedFrames)
           newY == IF alignment = "top" THEN baseY
                   ELSE IF alignment = "center" THEN baseY - (d.height[frame] \div 2)
                   ELSE baseY - d.height[frame]
       IN IF frame \in d.locked
          THEN placeHorizontal(d, Tail(sortedFrames), currentX, baseY, spacing, alignment)
          ELSE placeHorizontal([d EXCEPT !.x[frame] = currentX, !.y[frame] = newY],
                               Tail(sortedFrames),
                               currentX + d.width[frame] + spacing,
                               baseY, spacing, alignment)

\* Variant: the frames are placed in the order given, not in order of x.
arrangeFramesHorizontalUnsorted(d, frames, spacing, startX, startY, alignment) ==
  LET maxHeight == SetMax({d.height[f] : f \in Range(frames)})
      baseY == IF alignment = "top" THEN startY
               ELSE IF alignment = "center" THEN startY + (maxHeight \div 2)
               ELSE startY + maxHeight
  IN placeHorizontal(d, frames, startX, baseY, spacing, alignment)

arrangeFramesHorizontal(d, frames, spacing, startX, startY, alignment) ==
  LET sortedFrames == SortBy(d.x, frames)
      maxHeight == SetMax({d.height[f] : f \in Range(frames)})
      baseY == IF alignment = "top" THEN startY
               ELSE IF alignment = "center" THEN startY + (maxHeight \div 2)
               ELSE startY + maxHeight
  IN placeHorizontal(d, sortedFrames, startX, baseY, spacing, alignment)

RECURSIVE placeVertical(_, _, _, _, _, _)
placeVertical(d, sortedFrames, currentY, baseX, spacing, alignment) ==
  IF sortedFrames = <<>> THEN d
  ELSE LET frame == Head(sortedFrames)
           newX == IF alignment = "left" THEN baseX
                   ELSE IF alignment = "center" THEN baseX - (d.width[frame] \div 2)
                   ELSE baseX - d.width[frame]
       IN IF frame \in d.locked
          THEN placeVertical(d, Tail(sortedFrames), currentY, baseX, spacing, alignment)
          ELSE placeVertical([d EXCEPT !.x[frame] = newX, !.y[frame] = currentY],
                             Tail(sortedFrames),
                             currentY + d.height[frame] + spacing,
                             baseX, spacing, alignment)

arrangeFramesVertical(d, frames, spacing, startX, startY, alignment) ==
  LET sortedFrames == SortBy(d.y, frames)
      maxWidth == SetMax({d.width[f] : f \in Range(frames)})
      baseX == IF alignment = "left" THEN startX
               ELSE IF alignment = "center" THEN startX + (maxWidth \div 2)
               ELSE startX + maxWidth
  IN placeVertical(d, sortedFrames, startY, baseX, spacing, alignment)

arrangeFramesMaintain(d, frames, spacing) == d

\* The dispatch on msg.layout shared by createSection, updateSection and
\* updateSectionWithStoredSettings.
arrangeByLayout(d, frames, msg, minX, minY) ==
  IF msg.layout = "horizontal"
  THEN arrangeFramesHorizontal(d, frames, msg.spacing, minX, minY, msg.alignment)
  ELSE IF msg.layout = "vertical"
  THEN arrangeFramesVertical(d, frames, msg.spacing, minX, minY, msg.alignment)
  ELSE arrangeFramesMaintain(d, frames, msg.spacing)

\* ------------------------------------------------------------ layout
\* Variant: the left padding is used on the right as well.
sectionPlacementLeftOnBothSides(d, frames, msg) ==
  LET box == BoundingBox(d, frames)
      relX == [f \in Range(frames) |-> (d.x[f] - box.minX) + msg.padding.left]
      relY == [f \in Range(frames) |-> (d.y[f] - box.minY) + msg.padding.top]
      maxRelativeX == SetMax({0} \cup {relX[f] + d.width[f] : f \in Range(frames)})
      maxRelativeY == SetMax({0} \cup {relY[f] + d.height[f] : f \in Range(frames)})
  IN [sectionX |-> box.minX - msg.padding.left,
      sectionY |-> box.minY - msg.padding.top,
      relX |-> relX,
      relY |-> relY,
      expectedWidth |-> maxRelativeX + msg.padding.left,
      expectedHeight |-> maxRelativeY + msg.padding.bottom]

\* "Calculate relative positions and expected size": where the section goes
\* and where each frame goes inside it, from the arranged frames.
sectionPlacement(d, frames, msg) ==
  LET box == BoundingBox(d, frames)
      relX == [f \in Range(frames) |-> (d.x[f] - box.minX) + msg.padding.left]
      relY == [f \in Range(frames) |-> (d.y[f] - box.minY) + msg.padding.top]
      maxRelativeX == SetMax({0} \cup {relX[f] + d.width[f] : f \in Range(frames)})
      maxRelativeY == SetMax({0} \cup {relY[f] + d.height[f] : f \in Range(frames)})
  IN [sectionX |-> box.minX - msg.padding.left,
      sectionY |-> box.minY - msg.padding.top,
      relX |-> relX,
      relY |-> relY,
      expectedWidth |-> maxRelativeX + msg.padding.right,
      expectedHeight |-> maxRelativeY + msg.padding.bottom]

moveSection(d, section, place) ==
  [d EXCEPT !.x[section] = place.sectionX,
            !.y[section] = place.sectionY,
            !.width[section] = place.expectedWidth,
            !.height[section] = place.expectedHeight]

\* "Add frames to section" of updateSection: each frame in its own try/catch,
\* a frame whose setter throws stays where it is, outside the section.
RECURSIVE addFramesToSection(_, _, _, _)
addFramesToSection(d, section, frames, place) ==
  IF frames = <<>> THEN d
  ELSE LET frame == Head(frames)
       IN IF frame \in d.locked
          THEN addFramesToSection(d, section, Tail(frames), place)
          ELSE addFramesToSection(
                 appendChild([d EXCEPT !.x[frame] = place.relX[frame],
                                       !.y[frame] = place.relY[frame]],
                             section, frame),
                 section, Tail(frames), place)

\* "Convert to absolute positions" of updateSection, each frame in a try/catch.
RECURSIVE toAbsolute(_, _, _, _, _)
toAbsolute(d, frames, originalSectionX, originalSectionY, initial) ==
  IF frames = <<>> THEN d
  ELSE LET frame == Head(frames)
       IN IF frame \in d.locked
          THEN toAbsolute(d, Tail(frames), originalSectionX, originalSectionY, initial)
          ELSE toAbsolute([d EXCEPT !.x[frame] = originalSectionX + initial.x[frame],
                                    !.y[frame] = originalSectionY + initial.y[frame]],
                          Tail(frames), originalSectionX, originalSectionY, initial)

\* Variant: the settings are stored file-wide, on every section.
setPluginDataOnEverySection(d, section, data) ==
  [d EXCEPT !.pluginData = [s \in SectionIds |-> data]]

setPluginData(d, section, data) == [d EXCEPT !.pluginData[section] = data]

\* Frames out of the section, in absolute coordinates, arranged: the state in
\* which msg.padding is first read.
arrangedOutside(d, section, msg) ==
  LET frames == findFramesInSection(d, section)
      d1 == appendAll(d, ParentOf(d, section), frames)
      d2 == toAbsolute(d1, frames, d.x[section], d.y[section], [x |-> d.x, y |-> d.y])
      box == BoundingBox(d2, frames)
  IN arrangeByLayout(d2, frames, msg, box.minX, box.minY)

\* The body of updateSection from "Store section position" to setPluginData,
\* for a section with at least one frame and a message with all four fields.
relayoutSection(d, section, msg) ==
  LET frames == findFramesInSection(d, section)
      d3 == arrangedOutside(d, section, msg)
      place == sectionPlacement(d3, frames, msg)
      d4 == moveSection(d3, section, place)
      d5 == addFramesToSection(d4, section, frames, place)
  IN setPluginData(d5, section, JSONstringify(msg))

\* ------------------------------------------------------------ detection
\* The pixel tolerances of the detectors.
RowTolerance == 10
SpacingTolerance == 2

\* The comparator of detectSpacing's first sort: by x when the two y are less
\* than 10 px apart, else by y.
rowCompare(g, a, b) ==
  IF Abs(g.y[a] - g.y[b]) < Px(RowTolerance) THEN g.x[a] - g.x[b] ELSE g.y[a] - g.y[b]

Sign(v) == IF v < 0 THEN -1 ELSE IF v > 0 THEN 1 ELSE 0

\* The comparator orders the frames consistently: "sorts before" is
\* transitive, and "sorts equal" frames compare alike with every third frame.
ConsistentCompare(g, frames) ==
  \A a, b, c \in Range(frames) :
    /\ (rowCompare(g, a, b) < 0 /\ rowCompare(g, b, c) < 0) => rowCompare(g, a, c) < 0
    /\ rowCompare(g, a, b) = 0 => Sign(rowCompare(g, a, c)) = Sign(rowCompare(g, b, c))

RECURSIVE InsertCompare(_, _, _, _)
InsertCompare(g, s, e, i) ==
  IF i = 0 \/ rowCompare(g, s[i], e) <= 0
  THEN SubSeq(s, 1, i) \o <<e>> \o SubSeq(s, i + 1, Len(s))
  ELSE InsertCompare(g, s, e, i - 1)

RECURSIVE SortCompare(_, _)
SortCompare(g, s) ==
  IF s = <<>> THEN <<>>
  ELSE LET front == SortCompare(g, SubSeq(s, 1, Len(s) - 1))
       IN InsertCompare(g, front, s[Len(s)], Len(front))

OrdersOf(s) ==
  {p \in [1..Len(s) -> Range(s)] : \A f \in Range(s) : \E i \in 1..Len(s) : p[i] = f}

\* The orders [...frames].sort(comparator) can give: the stable sorted order
\* when the comparator is consistent on these frames; any order when it is
\* not (ECMAScript leaves that order to the implementation).
sortedFramesOutcomes(g, frames) ==
  IF ConsistentCompare(g, frames) THEN {SortCompare(g, frames)}
  ELSE OrdersOf(frames)

\* "Group frames by approximate row": one pass over the sorted frames; the
\* row's reference y is the y of its first frame.
RECURSIVE groupRows(_, _, _, _, _)
groupRows(g, sortedFrames, rows, currentRow, currentRowY) ==
  IF sortedFrames = <<>>
  THEN IF currentRow # <<>> THEN Append(rows, currentRow) ELSE rows
  ELSE LET frame == Head(sortedFrames)
       IN IF Abs(g.y[frame] - currentRowY) < Px(RowTolerance)
          THEN groupRows(g, Tail(sortedFrames), rows, Append(currentRow, frame), currentRowY)
          ELSE groupRows(g, Tail(sortedFrames),
                         IF currentRow # <<>> THEN Append(rows, currentRow) ELSE rows,
                         <<frame>>, g.y[frame])

rowsOf(g, sortedFrames) ==
  groupRows(g, sortedFrames, <<>>, <<>>, g.y[sortedFrames[1]])

NonNegative(v) == v >= 0

\* "Check horizontal spacing in rows": gaps of x-adjacent frames of each row.
rowSpacings(g, row) ==
  IF Len(row) < 2 THEN <<>>
  ELSE LET sortedRow == SortBy(g.x, row)
           gaps == [i \in 1..(Len(row) - 1) |->
                      g.x[sortedRow[i + 1]] - (g.x[sortedRow[i]] + g.width[sortedRow[i]])]
       IN SelectSeq(gaps, NonNegative)

RECURSIVE horizontalSpacings(_, _)
horizontalSpacings(g, rows) ==
  IF rows = <<>> THEN <<>>
  ELSE rowSpacings(g, Head(rows)) \o horizontalSpacings(g, Tail(rows))

\* "Check vertical spacing between rows".
verticalSpacings(g, rows) ==
  IF Len(rows) <= 1 THEN <<>>
  ELSE LET gaps == [i \in 1..(Len(rows) - 1) |->
                      SetMin({g.y[f] : f \in Range(rows[i + 1])})
                      - SetMax({g.y[f] + g.height[f] : f \in Range(rows[i])})]
       IN SelectSeq(gaps, NonNegative)

allSpacingsOf(g, sortedFrames) ==
  LET rows == rowsOf(g, sortedFrames)
  IN horizontalSpacings(g, rows) \o verticalSpacings(g, rows)

\* spacingGroups: how many spacings round to each value.  for...in visits the
\* keys, all non-negative integers, in ascending order.
groupCount(allSpacings, rounded) ==
  Cardinality({i \in 1..Len(allSpacings) : MathRound(allSpacings[i]) = rounded})

groupKeys(allSpacings) == {MathRound(allSpacings[i]) : i \in 1..Len(allSpacings)}

\* Variant: the keys are visited in the order they were inserted.
firstLargestInserted(allSpacings, keys) ==
  IF keys = {} THEN None
  ELSE LET best == SetMax({groupCount(allSpacings, k) : k \in keys})
           first == SetMin({i \in 1..Len(allSpacings) :
                              /\ MathRound(allSpacings[i]) \in keys
                              /\ groupCount(allSpacings, MathRound(allSpacings[i])) = best})
       IN Some(MathRound(allSpacings[first]))

\* The first key, in ascending order, among the keys of largest count.
firstLargest(allSpacings, keys) ==
  IF keys = {} THEN None
  ELSE LET best == SetMax({groupCount(allSpacings, k) : k \in keys})
       IN Some(SetMin({k \in keys : groupCount(allSpacings, k) = best}))

\* Variant: the spacings are all exactly the first one.
isEvenExact(allSpacings) ==
  \A i \in 1..Len(allSpacings) : allSpacings[i] = allSpacings[1]

isEven(allSpacings) ==
  \A i \in 1..Len(allSpacings) :
    Abs(allSpacings[i] - allSpacings[1]) <= Px(SpacingTolerance)

\* Variant: a frequent non-zero spacing is preferred to 0 however many of
\* the spacings are 0.
spacingFromAnyShareOfZero(allSpacings) ==
  LET n == Len(allSpacings)
      keys == groupKeys(allSpacings)
      mostCommonSpacing == firstLargest(allSpacings, keys)[1]
      maxCount == groupCount(allSpacings, mostCommonSpacing)
      frequentNonZero == {k \in keys : k > 0 /\ groupCount(allSpacings, k) >= 2
                                       /\ 20 * groupCount(allSpacings, k) >= n}
      repeatedNonZero == {k \in keys : k > 0 /\ groupCount(allSpacings, k) >= 2}
  IN IF n = 0 THEN None
     ELSE IF isEven(allSpacings) /\ allSpacings[1] >= 0 THEN Some(MathRound(allSpacings[1]))
     ELSE IF 5 * maxCount >= n
     THEN IF mostCommonSpacing = 0 /\ frequentNonZero # {}
          THEN firstLargest(allSpacings, frequentNonZero)
          ELSE Some(mostCommonSpacing)
     ELSE firstLargest(allSpacings, repeatedNonZero)

\* detectSpacing from "Combine all spacings" on.  n * 0.2, n * 0.5 and
\* n * 0.05 are compared as 5 * count >= n, 2 * count < n, 20 * count >= n.
spacingFrom(allSpacings) ==
  LET n == Len(allSpacings)
      keys == groupKeys(allSpacings)
      mostCommonSpacing == firstLargest(allSpacings, keys)[1]
      maxCount == groupCount(allSpacings, mostCommonSpacing)
      frequentNonZero == {k \in keys : k > 0 /\ groupCount(allSpacings, k) >= 2
                                       /\ 20 * groupCount(allSpacings, k) >= n}
      repeatedNonZero == {k \in keys : k > 0 /\ groupCount(allSpacings, k) >= 2}
  IN IF n = 0 THEN None
     ELSE IF isEven(allSpacings) /\ allSpacings[1] >= 0 THEN Some(MathRound(allSpacings[1]))
     ELSE IF 5 * maxCount >= n
     THEN IF mostCommonSpacing = 0 /\ 2 * maxCount < n /\ frequentNonZero # {}
          THEN firstLargest(allSpacings, frequentNonZero)
          ELSE Some(mostCommonSpacing)
     ELSE firstLargest(allSpacings, repeatedNonZero)

\* The values detectSpacing can return for these frames (None is null).
detectSpacing(g, frames) ==
  IF Len(frames) < 2 THEN {None}
  ELSE {spacingFrom(allSpacingsOf(g, sortedFrames)) :
          sortedFrames \in sortedFramesOutcomes(g, frames)}

allWithin(values, reference, scale) ==
  \A i \in 1..Len(values) :
    Abs(scale * values[i] - reference) <= scale * Px(SpacingTolerance)

RECURSIVE SeqSum(_)
SeqSum(s) == IF s = <<>> THEN 0 ELSE Head(s) + SeqSum(Tail(s))

\* Variant: bottoms are tested before tops, rights before lefts.
detectLayoutAndAlignmentFarEdgeFirst(g, frames) ==
  LET box == BoundingBox(g, frames)
      width == box.maxX - box.minX
      height == box.maxY - box.minY
      n == Len(frames)
      topYs == [i \in 1..n |-> g.y[frames[i]]]
      bottomYs == [i \in 1..n |-> g.y[frames[i]] + g.height[frames[i]]]
      centerYs == [i \in 1..n |-> g.y[frames[i]] + (g.height[frames[i]] \div 2)]
      leftXs == [i \in 1..n |-> g.x[frames[i]]]
      rightXs == [i \in 1..n |-> g.x[frames[i]] + g.width[frames[i]]]
      centerXs == [i \in 1..n |-> g.x[frames[i]] + (g.width[frames[i]] \div 2)]
  IN IF n < 2 THEN [layout |-> "horizontal", alignment |-> "top"]
     ELSE IF 5 * width > 6 * height
     THEN IF allWithin(bottomYs, bottomYs[1], 1)
          THEN [layout |-> "horizontal", alignment |-> "bottom"]
          ELSE IF allWithin(topYs, topYs[1], 1)
          THEN [layout |-> "horizontal", alignment |-> "top"]
          ELSE IF allWithin(centerYs, SeqSum(centerYs), n)
          THEN [layout |-> "horizontal", alignment |-> "center"]
          ELSE [layout |-> "horizontal", alignment |-> "top"]
     ELSE IF 5 * height > 6 * width
     THEN IF allWithin(rightXs, rightXs[1], 1)
          THEN [layout |-> "vertical", alignment |-> "right"]
          ELSE IF allWithin(leftXs, leftXs[1], 1)
          THEN [layout |-> "vertical", alignment |-> "left"]
          ELSE IF allWithin(centerXs, SeqSum(centerXs), n)
          THEN [layout |-> "vertical", alignment |-> "center"]
          ELSE [layout |-> "vertical", alignment |-> "left"]
     ELSE [layout |-> "maintain", alignment |-> "top"]

\* width > height * 1.2 is compared as 5 * width > 6 * height; a centre is
\* compared with the mean of the centres after multiplying both by the count.
detectLayoutAndAlignment(g, frames) ==
  LET box == BoundingBox(g, frames)
      width == box.maxX - box.minX
      height == box.maxY - box.minY
      n == Len(frames)
      topYs == [i \in 1..n |-> g.y[frames[i]]]
      bottomYs == [i \in 1..n |-> g.y[frames[i]] + g.height[frames[i]]]
      centerYs == [i \in 1..n |-> g.y[frames[i]] + (g.height[frames[i]] \div 2)]
      leftXs == [i \in 1..n |-> g.x[frames[i]]]
      rightXs == [i \in 1..n |-> g.x[frames[i]] + g.width[frames[i]]]
      centerXs == [i \in 1..n |-> g.x[frames[i]] + (g.width[frames[i]] \div 2)]
  IN IF n < 2 THEN [layout |-> "horizontal", alignment |-> "top"]
     ELSE IF 5 * width > 6 * height
     THEN IF allWithin(topYs, topYs[1], 1) THEN [layout |-> "horizontal", alignment |-> "top"]
          ELSE IF allWithin(bottomYs, bottomYs[1], 1)
          THEN [layout |-> "horizontal", alignment |-> "bottom"]
          ELSE IF allWithin(centerYs, SeqSum(centerYs), n)
          THEN [layout |-> "horizontal", alignment |-> "center"]
          ELSE [layout |-> "horizontal", alignment |-> "top"]
     ELSE IF 5 * height > 6 * width
     THEN IF allWithin(leftXs, leftXs[1], 1) THEN [layout |-> "vertical", alignment |-> "left"]
          ELSE IF allWithin(rightXs, rightXs[1], 1)
          THEN [layout |-> "vertical", alignment |-> "right"]
          ELSE IF allWithin(centerXs, SeqSum(centerXs), n)
          THEN [layout |-> "vertical", alignment |-> "center"]
          ELSE [layout |-> "vertical", alignment |-> "left"]
     ELSE [layout |-> "maintain", alignment |-> "top"]

\* ------------------------------------------------------------ batch helpers
\* The message updateSection gets when the stored object has none of the
\* four fields: every field undefined.
UndefinedMsg ==
  [padding |-> None, spacing |-> None, layout |-> "undefined", alignment |-> "undefined"]

hasStoredData(d, section) == d.pluginData[section].kind # "empty"

\* findAllSectionsWithSettings: the sections whose stored text is not empty
\* and parses, in document order (a section before the sections inside it),
\* each with its parsed settings.
RECURSIVE findSections(_, _)
RECURSIVE findSectionsIn(_, _)
findSections(d, node) ==
  IF NodeType(node) # "SECTION" THEN <<>>
  ELSE (IF hasStoredData(d, node) /\ JSONparse(d.pluginData[node]).ok
        THEN <<[section |-> node, settings |-> JSONparse(d.pluginData[node]).settings]>>
        ELSE <<>>)
       \o findSectionsIn(d, d.children[node])
findSectionsIn(d, nodes) ==
  IF nodes = <<>> THEN <<>>
  ELSE findSections(d, Head(nodes)) \o findSectionsIn(d, Tail(nodes))

findAllSectionsWithSettings(d) == findSectionsIn(d, d.children[Page])

\* updateSectionWithStoredSettings: the document it leaves and how it ended:
\* "true", "false" (no frames), or "throws" (msg.padding is undefined when
\* its left is read, after the frames were moved out and arranged).
updateSectionWithStoredSettings(d, section, storedSettings) ==
  IF findFramesInSection(d, section) = <<>> THEN [doc |-> d, result |-> "false"]
  ELSE IF storedSettings = None
  THEN [doc |-> arrangedOutside(d, section, UndefinedMsg), result |-> "throws"]
  ELSE [doc |-> relayoutSection(d, section, storedSettings[1]), result |-> "true"]

\* Variant: the loop ends at the first section whose update does not succeed.
RECURSIVE updateEachUntilFailure(_, _, _)
updateEachUntilFailure(d, sectionsWithSettings, attempts) ==
  IF sectionsWithSettings = <<>> THEN [doc |-> d, attempts |-> attempts]
  ELSE LET entry == Head(sectionsWithSettings)
           r == updateSectionWithStoredSettings(d, entry.section, entry.settings)
           tried == Append(attempts, [section |-> entry.section, result |-> r.result])
       IN IF r.result = "true"
          THEN updateEachUntilFailure(r.doc, Tail(sectionsWithSettings), tried)
          ELSE [doc |-> r.doc, attempts |-> tried]

\* Variant: every section is updated with the settings of the first one.
RECURSIVE updateEachWith(_, _, _, _)
updateEachWith(d, sectionsWithSettings, settings, attempts) ==
  IF sectionsWithSettings = <<>> THEN [doc |-> d, attempts |-> attempts]
  ELSE LET entry == Head(sectionsWithSettings)
           r == updateSectionWithStoredSettings(d, entry.section, settings)
       IN updateEachWith(r.doc, Tail(sectionsWithSettings), settings,
                         Append(attempts, [section |-> entry.section, result |-> r.result]))

updateEachFirstSettings(d, sectionsWithSettings, attempts) ==
  IF sectionsWithSettings = <<>> THEN [doc |-> d, attempts |-> attempts]
  ELSE updateEachWith(d, sectionsWithSettings, sectionsWithSettings[1].settings, attempts)

\* The loop of handleUpdateAllSections over the enumerated sections: the
\* document after it and, per section, how its update ended.
RECURSIVE updateEach(_, _, _)
updateEach(d, sectionsWithSettings, attempts) ==
  IF sectionsWithSettings = <<>> THEN [doc |-> d, attempts |-> attempts]
  ELSE LET entry == Head(sectionsWithSettings)
           r == updateSectionWithStoredSettings(d, entry.section, entry.settings)
       IN updateEach(r.doc, Tail(sectionsWithSettings),
                     Append(attempts, [section |-> entry.section, result |-> r.result]))

countOf(attempts, results) ==
  Cardinality({i \in 1..Len(attempts) : attempts[i].result \in results})

\* ------------------------------------------------------------ state
VARIABLES
  doc,                         \* the page: nodes, geometry, plugin data
  selection,                   \* figma.currentPage.selection
  ui,                          \* whether the plugin runs with its UI shown, and the 'init' message
  originalSelectionToRestore,  \* the module variable of that name (None is null)
  last,                        \* the handler that ran in the last step and what it reported
  streak,                      \* the run of same-settings operations on one section
  remaining,                   \* document-changing operations still allowed
  presets,                     \* clientStorage under 'autosection-presets'
  pending,                     \* the preset message handlers suspended at an await
  posted                       \* the preset messages posted to the UI, oldest first

vars == <<doc, selection, ui, originalSelectionToRestore, last, streak, remaining,
          presets, pending, posted>>

\* A step of a handler that works on the document: the stored presets stay;
\* the suspended handlers stay while the UI stays, and never resume once
\* figma.closePlugin() ran.
KeepsPresets ==
  /\ presets' = presets
  /\ posted' = posted
  /\ pending' = IF ui'.open THEN pending ELSE <<>>

Closed == [open |-> FALSE, init |-> None]

Report(op, notice) ==
  [op |-> op, notice |-> notice, section |-> None, msg |-> None,
   warned |-> {}, attempts |-> <<>>, successCount |-> 0, failCount |-> 0]

\* streak: the section and settings of the last document-changing operation
\* when it succeeded, and ops, the operations that applied these settings to
\* this section in a row: <<"update">> for updates alone, <<"create">>,
\* <<"create", "update">>, and <<"create", "update", "update">> for a create
\* followed by two or more updates.  NoStreak after an operation that threw
\* and after update-all.
NoStreak == [section |-> None, msg |-> None, ops |-> <<>>]

Created(section, msg) == [section |-> Some(section), msg |-> Some(msg), ops |-> <<"create">>]

Updated(section, msg) ==
  IF streak.section = Some(section) /\ streak.msg = Some(msg)
  THEN [streak EXCEPT !.ops = IF Head(@) = "create" /\ Len(@) < 3
                                THEN Append(@, "update") ELSE @]
  ELSE [section |-> Some(section), msg |-> Some(msg), ops |-> <<"update">>]

\* ------------------------------------------------------------ inputs
Layouts == {"horizontal", "vertical", "maintain"}
AlignmentsOf(layout) ==
  IF layout = "horizontal" THEN {"top", "center", "bottom"}
  ELSE IF layout = "vertical" THEN {"left", "center", "right"}
  ELSE {"top"}
Spacings == {Px(-15), Px(10)}
Paddings == {Pad(8, 6, 4, 2)}

\* The Configurations the UI sends with 'apply': the alignment is one the
\* layout admits.
Configs ==
  {c \in [padding : Paddings, spacing : Spacings, layout : Layouts,
          alignment : {"top", "center", "bottom", "left", "right"}] :
     c.alignment \in AlignmentsOf(c.layout)}

RECURSIVE Ancestors(_, _)
Ancestors(d, n) ==
  IF ParentOf(d, n) = Page THEN {}
  ELSE {ParentOf(d, n)} \cup Ancestors(d, ParentOf(d, n))

\* What the user can select: up to MaxSel nodes of the page, none together
\* with a node that contains it, listed in document-independent id order.
Selections(d) ==
  {SelectSeq(NodeOrder, LAMBDA n : n \in S) :
     S \in {T \in SUBSET Live(d) :
              /\ Cardinality(T) <= MaxSel
              /\ \A n \in T : Ancestors(d, n) \cap T = {}}}

\* ------------------------------------------------------------ handlers
InitMessage(mode, spacing, padding, layout, alignment) ==
  [mode |-> mode, detectedSpacing |-> spacing, currentPadding |-> padding,
   detectedLayout |-> layout, detectedAlignment |-> alignment]

selectedFrames == SelectSeq(selection, hasPositionAndSize)

\* The user changes the selection (the plugin does not run code here).
Select ==
  \E sel \in Selections(doc) :
    /\ sel # selection
    /\ selection' = sel
    /\ last' = Report("select", "")
    /\ UNCHANGED <<doc, ui, originalSelectionToRestore, streak, remaining>>
    /\ KeepsPresets

\* The 'cancel' message.
Cancel ==
  /\ ui.open
  /\ ui' = Closed
  /\ originalSelectionToRestore' = None
  /\ last' = Report("cancel", "")
  /\ UNCHANGED <<doc, selection, streak, remaining>>
  /\ KeepsPresets

\* An aborting handler: notify, closePlugin, return.
Abort(op, notice) ==
  /\ ui' = Closed
  /\ originalSelectionToRestore' = None
  /\ last' = Report(op, notice)
  /\ UNCHANGED <<doc, streak, remaining>>

handleCreateSection ==
  /\ ~ui.open
  /\ \/ /\ Len(selection) = 0
        /\ Abort("handleCreateSection", "Please select at least one frame")
        /\ UNCHANGED selection
     \/ /\ Len(selection) # 0
        /\ selectedFrames = <<>>
        /\ Abort("handleCreateSection",
                 "Please select at least one element with position and size")
        /\ UNCHANGED selection
     \/ /\ selectedFrames # <<>>
        /\ \E detectedSpacing \in detectSpacing(doc, selectedFrames) :
             LET detected == detectLayoutAndAlignment(doc, selectedFrames)
             IN ui' = [open |-> TRUE,
                       init |-> Some(InitMessage("create", detectedSpacing, None,
                                                 Some(detected.layout),
                                                 Some(detected.alignment)))]
        /\ last' = Report("handleCreateSection", "")
        /\ UNCHANGED <<doc, selection, originalSelectionToRestore, streak, remaining>>
  /\ KeepsPresets

\* The frames of a section with the section's origin added to x and y.
absoluteFrames(d, section) ==
  [x |-> [f \in PosIds |-> d.x[section] + d.x[f]],
   y |-> [f \in PosIds |-> d.y[section] + d.y[f]],
   width |-> d.width,
   height |-> d.height]

\* "Calculate current padding from section", rounded.
roundedPadding(d, section) ==
  LET box == BoundingBox(d, findFramesInSection(d, section))
  IN [top |-> MathRound(SetMax({0, box.minY})),
      right |-> MathRound(SetMax({0, d.width[section] - box.maxX})),
      bottom |-> MathRound(SetMax({0, d.height[section] - box.maxY})),
      left |-> MathRound(SetMax({0, box.minX}))]

\* Variant: the 'init' message is always detected from the frames.
updateInitMessagesDetected(d, section) ==
  LET frames == findFramesInSection(d, section)
      detected == detectLayoutAndAlignment(absoluteFrames(d, section), frames)
  IN {InitMessage("update", detectedSpacing, Some(roundedPadding(d, section)),
                  Some(detected.layout), Some(detected.alignment)) :
        detectedSpacing \in detectSpacing(absoluteFrames(d, section), frames)}

\* The 'init' messages handleUpdateSection can post for a section with frames.
updateInitMessages(d, section) ==
  LET frames == findFramesInSection(d, section)
      parsed == JSONparse(d.pluginData[section])
      detected == detectLayoutAndAlignment(absoluteFrames(d, section), frames)
  IN IF hasStoredData(d, section) /\ parsed.ok
     THEN IF parsed.settings = None
          THEN {InitMessage("update", None, None, None, None)}
          ELSE {InitMessage("update", Some(parsed.settings[1].spacing),
                            Some(parsed.settings[1].padding),
                            Some(parsed.settings[1].layout),
                            Some(parsed.settings[1].alignment))}
     ELSE {InitMessage("update", detectedSpacing, Some(roundedPadding(d, section)),
                       Some(detected.layout), Some(detected.alignment)) :
             detectedSpacing \in detectSpacing(absoluteFrames(d, section), frames)}

\* The section handleUpdateSection and handleRefreshSection work on.
targetSection ==
  IF NodeType(selection[1]) = "SECTION" THEN Some(selection[1])
  ELSE findParentSection(doc, selection[1])

handleUpdateSection ==
  /\ ~ui.open
  /\ \/ /\ Len(selection) # 1
        /\ Abort("handleUpdateSection", "Please select exactly one element")
        /\ UNCHANGED selection
     \/ /\ Len(selection) = 1
        /\ targetSection = None
        /\ Abort("handleUpdateSection", "Selected element is not inside a Section")
        /\ UNCHANGED selection
     \/ /\ Len(selection) = 1
        /\ targetSection # None
        /\ findFramesInSection(doc, targetSection[1]) = <<>>
        /\ selection' = <<targetSection[1]>>
        /\ Abort("handleUpdateSection",
                 "No elements with position and size found inside the selected section")
     \/ /\ Len(selection) = 1
        /\ targetSection # None
        /\ findFramesInSection(doc, targetSection[1]) # <<>>
        /\ selection' = <<targetSection[1]>>
        /\ originalSelectionToRestore' = Some(selection[1])
        /\ \E message \in updateInitMessages(doc, targetSection[1]) :
             ui' = [open |-> TRUE, init |-> Some(message)]
        /\ last' = [Report("handleUpdateSection", "") EXCEPT !.section = targetSection]
        /\ UNCHANGED <<doc, streak, remaining>>
  /\ KeepsPresets

\* figma.createSection(): the first section identifier not in the document.
FreeSections(d) == {i \in 1..Len(SectionOrder) : SectionOrder[i] \notin Live(d)}
newSection(d) == SectionOrder[SetMin(FreeSections(d))]

\* "Add frames to section" of createSection: no try/catch, so the loop ends
\* at the first frame whose position setter throws.
RECURSIVE addFramesUntilThrow(_, _, _, _)
addFramesUntilThrow(d, section, frames, place) ==
  IF frames = <<>> \/ Head(frames) \in d.locked THEN d
  ELSE addFramesUntilThrow(
         appendChild([d EXCEPT !.x[Head(frames)] = place.relX[Head(frames)],
                               !.y[Head(frames)] = place.relY[Head(frames)]],
                     section, Head(frames)),
         section, Tail(frames), place)

\* createSection up to the end of the "Add frames to section" loop.
createdSection(d, frames, msg) ==
  LET box == BoundingBox(d, frames)
      d1 == arrangeByLayout(d, frames, msg, box.minX, box.minY)
      place == sectionPlacement(d1, frames, msg)
      section == newSection(d)
      d2 == moveSection(appendChild(d1, Page, section), section, place)
  IN addFramesUntilThrow(d2, section, frames, place)

lockedAmong(d, frames) == {f \in Range(frames) : f \in d.locked}

\* The 'apply' message with mode 'create'.
createSection(configs) ==
  /\ ui.open
  /\ ui.init[1].mode = "create"
  /\ \E msg \in configs :
       \/ /\ selectedFrames = <<>>
          /\ Abort("createSection", "No elements with position and size selected")
          /\ UNCHANGED selection
       \/ /\ selectedFrames # <<>>
          /\ remaining > 0
          /\ FreeSections(doc) # {}
          /\ lockedAmong(doc, selectedFrames) = {}
          /\ doc' = setPluginData(createdSection(doc, selectedFrames, msg),
                                  newSection(doc), JSONstringify(msg))
          /\ selection' = <<newSection(doc)>>
          /\ ui' = Closed
          /\ originalSelectionToRestore' = None
          /\ last' = [Report("createSection", "Section created") EXCEPT
                        !.section = Some(newSection(doc)), !.msg = Some(msg)]
          /\ streak' = Created(newSection(doc), msg)
          /\ remaining' = remaining - 1
       \/ /\ selectedFrames # <<>>
          /\ remaining > 0
          /\ FreeSections(doc) # {}
          /\ lockedAmong(doc, selectedFrames) # {}
          /\ doc' = createdSection(doc, selectedFrames, msg)
          /\ last' = [Report("createSection", "throws") EXCEPT
                        !.section = Some(newSection(doc)), !.msg = Some(msg),
                        !.warned = lockedAmong(doc, selectedFrames)]
          /\ streak' = NoStreak
          /\ remaining' = remaining - 1
          /\ UNCHANGED <<selection, ui, originalSelectionToRestore>>
  /\ KeepsPresets

oneSectionSelected == Len(selection) = 1 /\ NodeType(selection[1]) = "SECTION"

\* The 'apply' message with mode 'update'.
updateSection(configs) ==
  /\ ui.open
  /\ ui.init[1].mode = "update"
  /\ \E msg \in configs :
       \/ /\ ~oneSectionSelected
          /\ Abort("updateSection", "Please select a Section to update")
          /\ UNCHANGED selection
       \/ /\ oneSectionSelected
          /\ findFramesInSection(doc, selection[1]) = <<>>
          /\ Abort("updateSection", "No elements with position and size found in section")
          /\ UNCHANGED selection
       \/ /\ oneSectionSelected
          /\ findFramesInSection(doc, selection[1]) # <<>>
          /\ remaining > 0
          /\ doc' = relayoutSection(doc, selection[1], msg)
          /\ ui' = Closed
          /\ originalSelectionToRestore' = None
          /\ last' = [Report("updateSection", "Section updated") EXCEPT
                        !.section = Some(selection[1]), !.msg = Some(msg),
                        !.warned = lockedAmong(doc, findFramesInSection(doc, selection[1]))]
          /\ streak' = Updated(selection[1], msg)
          /\ remaining' = remaining - 1
          /\ UNCHANGED selection
  /\ KeepsPresets

\* The message handleRefreshSection builds from the parsed settings.
storedMessage(d, section) == JSONparse(d.pluginData[section]).settings

handleRefreshSection ==
  /\ ~ui.open
  /\ \/ /\ Len(selection) # 1
        /\ Abort("handleRefreshSection", "Please select exactly one element")
        /\ UNCHANGED selection
     \/ /\ Len(selection) = 1
        /\ targetSection = None
        /\ Abort("handleRefreshSection", "Selected element is not inside a Section")
        /\ UNCHANGED selection
     \/ /\ Len(selection) = 1
        /\ targetSection # None
        /\ ~hasStoredData(doc, targetSection[1])
        /\ selection' = <<targetSection[1]>>
        /\ Abort("handleRefreshSection",
                 "Refresh is only available for sections created or updated with AutoSection")
     \/ /\ Len(selection) = 1
        /\ targetSection # None
        /\ hasStoredData(doc, targetSection[1])
        /\ ~JSONparse(doc.pluginData[targetSection[1]]).ok
        /\ selection' = <<targetSection[1]>>
        /\ Abort("handleRefreshSection",
                 "Error reading stored settings. Please update the section first.")
     \/ /\ Len(selection) = 1
        /\ targetSection # None
        /\ hasStoredData(doc, targetSection[1])
        /\ JSONparse(doc.pluginData[targetSection[1]]).ok
        /\ findFramesInSection(doc, targetSection[1]) = <<>>
        /\ selection' = <<targetSection[1]>>
        /\ Abort("handleRefreshSection",
                 "No elements with position and size found inside the selected section")
     \/ /\ Len(selection) = 1
        /\ targetSection # None
        /\ hasStoredData(doc, targetSection[1])
        /\ JSONparse(doc.pluginData[targetSection[1]]).ok
        /\ findFramesInSection(doc, targetSection[1]) # <<>>
        /\ remaining > 0
        /\ LET section == targetSection[1]
               msg == storedMessage(doc, section)
           IN /\ selection' = <<section>>
              /\ remaining' = remaining - 1
              /\ \/ /\ msg # None
                    /\ doc' = relayoutSection(doc, section, msg[1])
                    /\ last' = [Report("handleRefreshSection", "Section updated") EXCEPT
                                  !.section = Some(section), !.msg = msg,
                                  !.warned = lockedAmong(doc, findFramesInSection(doc, section))]
                    /\ streak' = Updated(section, msg[1])
                 \/ /\ msg = None
                    /\ doc' = arrangedOutside(doc, section, UndefinedMsg)
                    /\ last' = [Report("handleRefreshSection", "throws") EXCEPT
                                  !.section = Some(section)]
                    /\ streak' = NoStreak
              /\ ui' = Closed
              /\ originalSelectionToRestore' = None
  /\ KeepsPresets

handleUpdateAllSections ==
  /\ ~ui.open
  /\ \/ /\ findAllSectionsWithSettings(doc) = <<>>
        /\ Abort("handleUpdateAllSections",
                 "No sections with stored settings found on this page")
        /\ UNCHANGED selection
     \/ /\ findAllSectionsWithSettings(doc) # <<>>
        /\ remaining > 0
        /\ LET done == updateEach(doc, findAllSectionsWithSettings(doc), <<>>)
           IN /\ doc' = done.doc
              /\ last' = [Report("handleUpdateAllSections",
                                 IF countOf(done.attempts, {"false", "throws"}) = 0
                                 THEN "Updated" ELSE "Updated, failed")
                            EXCEPT !.attempts = done.attempts,
                                   !.successCount = countOf(done.attempts, {"true"}),
                                   !.failCount = countOf(done.attempts, {"false", "throws"})]
        /\ streak' = NoStreak
        /\ remaining' = remaining - 1
        /\ ui' = Closed
        /\ originalSelectionToRestore' = None
        /\ UNCHANGED selection
  /\ KeepsPresets

\* ------------------------------------------------------------ presets
\* Preset requests handled in one behaviour of SpecPresets.
MaxRequests == 2

\* The identifiers `preset-${Date.now()}-${random}` can give, the names and
\* the settings the UI sends.
PresetIds == {"p1", "p2"}
PresetNames == {"A", "B"}
PresetSettings ==
  {[padding |-> Pad(8, 6, 4, 2), spacing |-> Px(10), layout |-> "horizontal",
    alignment |-> "top"],
   [padding |-> Pad(80, 80, 80, 80), spacing |-> Px(-15), layout |-> "vertical",
    alignment |-> "right"]}

Preset(id, name, settings) == [id |-> id, name |-> name, settings |-> settings]

\* getPresets: the stored collection, or the empty one when the read throws.
getPresets(ok, stored) == IF ok THEN stored ELSE <<>>

\* presets.findIndex(p => p.id === presetId), counted from 1; 0 for -1.
findIndex(list, presetId) ==
  IF \E i \in 1..Len(list) : list[i].id = presetId
  THEN SetMin({i \in 1..Len(list) : list[i].id = presetId})
  ELSE 0

\* savePreset between its read and its write: replace in place or push.
savedInto(list, preset) ==
  IF findIndex(list, preset.id) > 0
  THEN [list EXCEPT ![findIndex(list, preset.id)] = preset]
  ELSE Append(list, preset)

\* deletePreset between its read and its write.
deletedFrom(list, presetId) == SelectSeq(list, LAMBDA p : p.id # presetId)

\* A handler of a preset message, suspended at an await: phase names the call
\* it waits for, preset is the preset it saves and list the collection it
\* will write.  readThrew records that a storage read of this handler threw
\* (getPresets caught it).
Handler(type, phase, presetId, settings, preset, list) ==
  [type |-> type, phase |-> phase, presetId |-> presetId, settings |-> settings,
   preset |-> preset, list |-> list, readThrew |-> FALSE]

Posted(type, presetId, preset, error) ==
  [type |-> type, presetId |-> presetId, preset |-> preset, error |-> error]

Without(s, i) == SubSeq(s, 1, i - 1) \o SubSeq(s, i + 1, Len(s))

Requested == Len(posted) + Len(pending)

DocumentStays ==
  UNCHANGED <<doc, selection, ui, originalSelectionToRestore, last, streak, remaining>>

\* 'save-preset': the handler builds the preset and suspends in getPresets.
savePresetRequest ==
  /\ ui.open
  /\ Requested < MaxRequests
  /\ \E id \in PresetIds, name \in PresetNames, settings \in PresetSettings :
       pending' = Append(pending, Handler("save-preset", "getPresets", id, Some(settings),
                                          Some(Preset(id, name, settings)), <<>>))
  /\ UNCHANGED <<presets, posted>>
  /\ DocumentStays

\* 'delete-preset': the handler suspends in getPresets.
deletePresetRequest ==
  /\ ui.open
  /\ Requested < MaxRequests
  /\ \E id \in PresetIds :
       pending' = Append(pending, Handler("delete-preset", "getPresets", id, None, None, <<>>))
  /\ UNCHANGED <<presets, posted>>
  /\ DocumentStays

\* 'update-preset': the handler suspends in getPreset.
updatePresetRequest ==
  /\ ui.open
  /\ Requested < MaxRequests
  /\ \E id \in PresetIds, settings \in PresetSettings :
       pending' = Append(pending, Handler("update-preset", "getPreset", id, Some(settings),
                                          None, <<>>))
  /\ UNCHANGED <<presets, posted>>
  /\ DocumentStays

\* figma.clientStorage.getAsync settles for a suspended handler, with the
\* stored collection or with an exception, and the handler runs to its next
\* await or to its end.
getAsyncSettles ==
  /\ \E i \in 1..Len(pending), ok \in BOOLEAN :
       LET h == pending[i]
           list == getPresets(ok, presets)
       IN /\ h.phase \in {"getPreset", "getPresets"}
          /\ IF h.phase = "getPreset"
             THEN IF findIndex(list, h.presetId) = 0
                  THEN /\ pending' = Without(pending, i)
                       /\ posted' = Append(posted, Posted("preset-error", h.presetId, None,
                                                          "Preset not found"))
                  ELSE /\ pending' =
                            [pending EXCEPT ![i] =
                               [h EXCEPT !.phase = "getPresets",
                                         !.readThrew = ~ok,
                                         !.preset = Some([list[findIndex(list, h.presetId)]
                                                            EXCEPT !.settings = h.settings[1]])]]
                       /\ posted' = posted
             ELSE /\ pending' =
                       [pending EXCEPT ![i] =
                          [h EXCEPT !.phase = "setAsync",
                                    !.readThrew = h.readThrew \/ ~ok,
                                    !.list = IF h.type = "delete-preset"
                                             THEN deletedFrom(list, h.presetId)
                                             ELSE savedInto(list, h.preset[1])]]
                  /\ posted' = posted
  /\ UNCHANGED presets
  /\ DocumentStays

\* The message a handler posts when its write succeeded.
succeeded(h) ==
  IF h.type = "save-preset" THEN Posted("preset-saved", h.presetId, h.preset, "")
  ELSE IF h.type = "delete-preset" THEN Posted("preset-deleted", h.presetId, None, "")
  ELSE Posted("preset-updated", h.presetId, h.preset, "")

failed(h) ==
  Posted("preset-error", h.presetId, None,
         IF h.type = "save-preset" THEN "Failed to save preset"
         ELSE IF h.type = "delete-preset" THEN "Failed to delete preset"
         ELSE "Failed to update preset")

\* figma.clientStorage.setAsync settles for a suspended handler: the
\* collection is written, or the write throws, and the handler posts its
\* message and ends.
setAsyncSettles ==
  /\ \E i \in 1..Len(pending), ok \in BOOLEAN :
       LET h == pending[i]
       IN /\ h.phase = "setAsync"
          /\ presets' = IF ok THEN h.list ELSE presets
          /\ posted' = Append(posted, IF ok THEN succeeded(h) ELSE failed(h))
          /\ pending' = Without(pending, i)
  /\ DocumentStays

\* ------------------------------------------------------------ documents
Blank ==
  [children |-> [c \in Containers |-> <<>>],
   x |-> [n \in PosIds |-> 0],
   y |-> [n \in PosIds |-> 0],
   width |-> [n \in PosIds |-> 0],
   height |-> [n \in PosIds |-> 0],
   pluginData |-> [s \in SectionIds |-> NoData],
   locked |-> {}]

\* Node n under parent at (x, y) with size w x h, in pixels.
Put(d, parent, n, x, y, w, h) ==
  [d EXCEPT !.children[parent] = Append(@, n),
            !.x[n] = Px(x), !.y[n] = Px(y), !.width[n] = Px(w), !.height[n] = Px(h)]

HorizontalTop(spacing, padding) ==
  [padding |-> padding, spacing |-> Px(spacing), layout |-> "horizontal", alignment |-> "top"]

\* Three 100 x 100 frames in a row, 10 px apart.
RowOfThree ==
  Put(Put(Put(Blank, Page, "r1", 0, 0, 100, 100),
          Page, "r2", 110, 0, 100, 100),
      Page, "r3", 220, 0, 100, 100)

\* Frames of different sizes, unevenly spaced, tops not aligned.
Scattered ==
  Put(Put(Put(Blank, Page, "r1", 0, 0, 10, 10),
          Page, "r2", 12, 4, 20, 30),
      Page, "r3", 40, 0, 10, 20)

\* A section in a section, both laid out by the plugin earlier; a frame of the
\* inner one was moved since.
Nested ==
  LET d == Put(Put(Put(Put(Put(Blank, Page, "s1", 0, 0, 58, 42),
                           "s1", "r1", 2, 8, 10, 10),
                       "s1", "s2", 22, 8, 30, 30),
                   "s2", "r2", 2, 8, 10, 10),
               "s2", "r3", 30, 8, 10, 10)
  IN [d EXCEPT !.pluginData =
        [s \in SectionIds |-> JSONstringify(HorizontalTop(10, Pad(8, 6, 4, 2)))]]

\* A section drawn by hand (no stored settings), a frame and a node without position and size beside it.
HandMade ==
  LET d == Put(Put(Put(Put(Blank, Page, "s1", 0, 0, 60, 40),
                       "s1", "r1", 5, 5, 10, 10),
                   "s1", "r2", 26, 5, 10, 20),
               Page, "r3", 100, 0, 10, 10)
  IN [d EXCEPT !.children[Page] = Append(@, "n0")]

\* Sections whose stored text does not give settings: one holds text that is
\* no JSON, the other a JSON object without the four fields.
Broken ==
  LET d == Put(Put(Put(Put(Put(Blank, Page, "s1", 0, 0, 60, 40),
                           "s1", "r1", 5, 5, 10, 10),
                       "s1", "r2", 26, 5, 10, 20),
                   Page, "s2", 100, 0, 40, 40),
               "s2", "r3", 5, 5, 10, 10)
  IN [d EXCEPT !.pluginData = [s \in SectionIds |->
                                 IF s = "s1" THEN Garbage ELSE EmptyObject]]

\* A section with settings that lost its frames, a section with settings and
\* frames; one frame cannot be moved.
Emptied ==
  LET d == Put(Put(Put(Put(Put(Blank, Page, "s1", 0, 0, 60, 40),
                           Page, "s2", 100, 0, 40, 40),
                       "s2", "r1", 5, 5, 10, 10),
                   "s2", "r2", 26, 5, 10, 20),
               Page, "r3", 200, 0, 10, 10)
  IN [d EXCEPT !.pluginData =
                 [s \in SectionIds |-> JSONstringify(HorizontalTop(10, Pad(8, 6, 4, 2)))],
               !.locked = {"r3"}]

\* Two sections side by side with different settings, frames moved since.
Siblings ==
  LET d == Put(Put(Put(Put(Put(Blank, Page, "s1", 0, 0, 60, 40),
                           "s1", "r1", 5, 5, 10, 10),
                       "s1", "r2", 26, 5, 10, 20),
                   Page, "s2", 100, 0, 40, 40),
               "s2", "r3", 5, 5, 10, 10)
  IN [d EXCEPT !.pluginData =
        [s \in SectionIds |->
           IF s = "s1" THEN JSONstringify(HorizontalTop(10, Pad(8, 6, 4, 2)))
           ELSE JSONstringify([padding |-> Pad(80, 80, 80, 80), spacing |-> Px(10),
                               layout |-> "vertical", alignment |-> "right"])]]

\* A section whose stored object has no fields, before a section with
\* settings.
Fieldless ==
  LET d == Put(Put(Put(Put(Put(Blank, Page, "s1", 0, 0, 60, 40),
                           "s1", "r1", 5, 5, 10, 10),
                       Page, "s2", 100, 0, 40, 40),
                   "s2", "r2", 5, 5, 10, 10),
               "s2", "r3", 26, 5, 10, 20)
  IN [d EXCEPT !.pluginData =
        [s \in SectionIds |->
           IF s = "s1" THEN EmptyObject
           ELSE JSONstringify(HorizontalTop(10, Pad(8, 6, 4, 2)))]]

\* A section with settings, away from the page's origin, whose second frame
\* cannot be moved.
Pinned ==
  LET d == Put(Put(Put(Put(Blank, Page, "s1", 40, 20, 80, 40),
                       "s1", "r1", 5, 5, 10, 10),
                   "s1", "r2", 26, 5, 10, 20),
               "s1", "r3", 50, 9, 20, 10)
  IN [d EXCEPT !.pluginData["s1"] = JSONstringify(HorizontalTop(10, Pad(8, 6, 4, 2))),
               !.locked = {"r2"}]

InitialDocuments ==
  {RowOfThree, Scattered, Nested, HandMade, Broken, Emptied, Siblings, Fieldless,
   Pinned}

\* Three 100 x 100 frames: r1 at the origin, r2 at (x2, y2), r3 at (x3, y3).
Spread(x2, y2, x3, y3) ==
  Put(Put(Put(Blank, Page, "r1", 0, 0, 100, 100),
          Page, "r2", x2, y2, 100, 100),
      Page, "r3", x3, y3, 100, 100)

\* r2 overlapping, touching or 10 or 12 px right of r1, level with r1, 6 or
\* 10 px lower, or far below; r3 1, 10, 12 or 14 px right of where r2 ends,
\* level with r1 or 12 px lower.
DetectionDocuments ==
  {Spread(x2, y2, x2 + 100 + gap, y3) :
     x2 \in {95, 100, 110, 112}, y2 \in {0, 6, 10, 150}, gap \in {1, 10, 12, 14},
     y3 \in {0, 12}}

\* Six 100 x 100 frames in one row, with these five gaps between them.
RowOfSix(gaps) ==
  LET x == [i \in 1..6 |-> 100 * (i - 1) + SeqSum(SubSeq(gaps, 1, i - 1))]
  IN Put(Put(Put(Put(Put(Put(Blank, Page, "r1", x[1], 0, 100, 100),
                         Page, "r2", x[2], 0, 100, 100),
                     Page, "r3", x[3], 0, 100, 100),
                 Page, "r4", x[4], 0, 100, 100),
             Page, "r5", x[5], 0, 100, 100),
         Page, "r6", x[6], 0, 100, 100)

\* Every row of six whose gaps are 0, 10 or 20 px.
GapDocuments == {RowOfSix(gaps) : gaps \in [1..5 -> {0, 10, 20}]}

\* ------------------------------------------------------------ specification
\* The Configurations tried where the user also changes the selection freely.
BasicConfigs ==
  {HorizontalTop(10, Pad(80, 80, 80, 80)),
   [padding |-> Pad(8, 6, 4, 2), spacing |-> Px(-15), layout |-> "horizontal",
    alignment |-> "center"],
   [padding |-> Pad(8, 6, 4, 2), spacing |-> Px(10), layout |-> "vertical",
    alignment |-> "right"],
   [padding |-> Pad(8, 6, 4, 2), spacing |-> Px(10), layout |-> "maintain",
    alignment |-> "top"]}

Start(budget) ==
  /\ ui = Closed
  /\ originalSelectionToRestore = None
  /\ last = Report("start", "")
  /\ streak = NoStreak
  /\ remaining = budget
  /\ pending = <<>>
  /\ posted = <<>>

\* Any document, nothing selected; the user selects and runs commands.
Init ==
  /\ doc \in InitialDocuments
  /\ selection = <<>>
  /\ presets = <<>>
  /\ Start(MaxApplies)

Next ==
  \/ Select
  \/ Cancel
  \/ handleCreateSection
  \/ createSection(BasicConfigs)
  \/ handleUpdateSection
  \/ updateSection(BasicConfigs)
  \/ handleRefreshSection
  \/ handleUpdateAllSections

Spec == Init /\ [][Next]_vars

\* Repeated layout: rectangles on the page and any selection of them to begin
\* with; every Configuration; the selection changes only as the handlers
\* change it.
InitLayout ==
  /\ doc \in {RowOfThree, Scattered}
  /\ selection \in Selections(doc)
  /\ presets = <<>>
  /\ Start(MaxRelayouts)

NextLayout ==
  \/ Cancel
  \/ handleCreateSection
  \/ createSection(Configs)
  \/ handleUpdateSection
  \/ updateSection(Configs)
  \/ handleRefreshSection
  \/ handleUpdateAllSections

SpecLayout == InitLayout /\ [][NextLayout]_vars

\* Detection: frames spread over the page, any selection of them, and the
\* Create command; nothing changes the document.
InitDetect ==
  /\ doc \in DetectionDocuments
  /\ selection = <<>>
  /\ presets = <<>>
  /\ Start(0)

NextDetect ==
  \/ Select
  \/ Cancel
  \/ handleCreateSection

SpecDetect == InitDetect /\ [][NextDetect]_vars

\* The collections clientStorage can hold to begin with: no two presets with
\* one id; names may repeat.
StoredCollections ==
  {<<>>,
   <<Preset("p1", "A", [padding |-> Pad(8, 6, 4, 2), spacing |-> Px(10),
                        layout |-> "horizontal", alignment |-> "top"])>>,
   <<Preset("p2", "A", [padding |-> Pad(8, 6, 4, 2), spacing |-> Px(10),
                        layout |-> "horizontal", alignment |-> "top"]),
     Preset("p1", "A", [padding |-> Pad(80, 80, 80, 80), spacing |-> Px(-15),
                        layout |-> "vertical", alignment |-> "right"])>>}

\* Presets: three frames selected, any stored collection; the Create command
\* shows the UI, which sends preset messages until it is cancelled.
InitPresets ==
  /\ doc = RowOfThree
  /\ selection = <<"r1", "r2", "r3">>
  /\ presets \in StoredCollections
  /\ Start(0)

NextPresets ==
  \/ Cancel
  \/ handleCreateSection
  \/ savePresetRequest
  \/ deletePresetRequest
  \/ updatePresetRequest
  \/ getAsyncSettles
  \/ setAsyncSettles

SpecPresets == InitPresets /\ [][NextPresets]_vars

\* Detection on many gaps: a row of six frames, all selected, and the Create
\* command.
InitGaps ==
  /\ doc \in GapDocuments
  /\ selection = <<"r1", "r2", "r3", "r4", "r5", "r6">>
  /\ presets = <<>>
  /\ Start(0)

NextGaps ==
  \/ Cancel
  \/ handleCreateSection

SpecGaps == InitGaps /\ [][NextGaps]_vars

TypeOK ==
  /\ remaining \in 0..(MaxApplies + MaxRelayouts)
  /\ \A n \in Live(doc) : Cardinality({c \in Containers : n \in Range(doc.children[c])}) = 1

\* ------------------------------------------------------------ re-layout
\* The origin and size of a section and the section-relative position of
\* each of its members.
SectionGeometry(d, section) ==
  [x |-> d.x[section], y |-> d.y[section],
   width |-> d.width[section], height |-> d.height[section],
   members |-> [f \in Range(findFramesInSection(d, section)) |-> <<d.x[f], d.y[f]>>]]

\* This step is an Update of section with the settings it was created with
\* and has been updated with since.
UpdatesAgain(section) ==
  /\ Len(streak.ops) >= 2
  /\ streak.ops[1] = "create"
  /\ streak.section = Some(section)
  /\ last'.notice = "Section updated"
  /\ last'.section = streak.section
  /\ last'.msg = streak.msg
  /\ remaining' = remaining - 1

\* C1: after Create with c and Update with c (from the UI or by Refresh), a
\* further Update with c leaves the section's origin and size and every
\* member's relative position unchanged, for every valid c.
C1_SecondUpdateChangesNothing ==
  [][\A section \in SectionIds :
       UpdatesAgain(section)
         => SectionGeometry(doc', section) = SectionGeometry(doc, section)]_vars

\* ------------------------------------------------------------ padding
\* The section is as large as its members and the padding require, and its
\* members start at the padding.
PaddingRelation(d, section, padding) ==
  LET frames == Range(findFramesInSection(d, section))
  IN /\ d.width[section] = SetMax({d.x[f] + d.width[f] : f \in frames}) + padding.right
     /\ d.height[section] = SetMax({d.y[f] + d.height[f] : f \in frames}) + padding.bottom
     /\ SetMin({d.x[f] : f \in frames}) = padding.left
     /\ SetMin({d.y[f] : f \in frames}) = padding.top

ExactGaps(before, after, extent, frames, gap, origin) ==
  \E order \in OrdersOf(frames) :
    /\ \A i, j \in 1..Len(order) : i < j => before[order[i]] <= before[order[j]]
    /\ after[order[1]] = origin
    /\ \A i \in 1..(Len(order) - 1) :
         after[order[i + 1]] - (after[order[i]] + extent[order[i]]) = gap

\* This step arranged the frames of the section it reports along layout,
\* every position write succeeding.
Arranges(layout) ==
  /\ last'.notice \in {"Section created", "Section updated"}
  /\ remaining' = remaining - 1
  /\ last'.msg[1].layout = layout
  /\ last'.warned = {}
  /\ Len(findFramesInSection(doc', last'.section[1])) >= 2

\* The page coordinate the arrangement of this step starts from: the least
\* coordinate of the frames as createSection reads them, or as updateSection
\* makes them absolute.
originOf(coordinate) ==
  LET section == last'.section[1]
      least == SetMin({coordinate[f] : f \in Range(findFramesInSection(doc', section))})
  IN IF last'.notice = "Section created" THEN least ELSE coordinate[section] + least

\* C3: after n >= 2 frames are arranged horizontally with gap g, no position
\* write failing, in ascending order of their x before the first is at the
\* origin x and each next one starts exactly g after the end of the one
\* before; likewise vertically on y and height.
C3_ExactGaps ==
  [][LET section == last'.section[1]
         frames == findFramesInSection(doc', section)
         gap == last'.msg[1].spacing
     IN /\ Arranges("horizontal")
             => ExactGaps(doc.x, [f \in PosIds |-> doc'.x[section] + doc'.x[f]],
                          doc.width, frames, gap, originOf(doc.x))
        /\ Arranges("vertical")
             => ExactGaps(doc.y, [f \in PosIds |-> doc'.y[section] + doc'.y[f]],
                          doc.height, frames, gap, originOf(doc.y))]_vars

\* Three frames of different widths arranged with a negative gap.
C3_Witness ==
  /\ last.notice = "Section updated"
  /\ last.msg # None
  /\ last.msg[1].layout = "horizontal"
  /\ last.msg[1].spacing = Px(-15)
  /\ findFramesInSection(doc, last.section[1]) = <<"r1", "r2", "r3">>
  /\ doc.width["r1"] # doc.width["r2"]
  /\ \E order \in OrdersOf(<<"r1", "r2", "r3">>) :
       \A i \in 1..2 : doc.x[order[i + 1]] - (doc.x[order[i]] + doc.width[order[i]]) = Px(-15)

\* ------------------------------------------------------------ detection
\* The Create command has just posted its 'init' message for two or more
\* selected frames.
Detected ==
  /\ last.op = "handleCreateSection"
  /\ ui.open
  /\ Len(selectedFrames) >= 2

\* The gaps detectSpacing retains for the selected frames, one list for each
\* order its first sort can give.
RetainedGaps ==
  {allSpacingsOf(doc, sortedFrames) :
     sortedFrames \in sortedFramesOutcomes(doc, selectedFrames)}

\* The values every one of the gaps is within 2 px of.
Centres(gaps) ==
  {g \in (SetMax(Range(gaps)) - Px(SpacingTolerance))..(SetMin(Range(gaps)) + Px(SpacingTolerance)) :
     g >= 0}

\* C4 (as the spec states it, in its weakest reading): when the retained
\* gaps are all within 2 px of some value, detectSpacing returns round(g) for
\* a value g they are all within 2 px of.
C4_RoundOfSomeCentre ==
  Detected =>
    \A gaps \in RetainedGaps :
      (RetainedGaps = {gaps} /\ gaps # <<>> /\ Centres(gaps) # {})
        => ui.init[1].detectedSpacing \in {Some(MathRound(g)) : g \in Centres(gaps)}

\* C4 (amended): when there are retained gaps and all are within 2 px of the
\* first retained gap g, detectSpacing returns round(g), 0 included.
C4_RoundOfFirstGap ==
  Detected =>
    ((\A gaps \in RetainedGaps :
        gaps # <<>> /\ \A i \in 1..Len(gaps) : Abs(gaps[i] - gaps[1]) <= Px(SpacingTolerance))
       => ui.init[1].detectedSpacing \in {Some(MathRound(gaps[1])) : gaps \in RetainedGaps})

\* Gaps of 12 and 10: the first, 12, is returned.
C4_Witness ==
  /\ Detected
  /\ RetainedGaps = {<<Px(12), Px(10)>>}
  /\ ui.init[1].detectedSpacing = Some(Px(12))

\* ------------------------------------------------------------ errors
\* The notices of the structural errors: nothing or nothing eligible selected,
\* the target neither a section nor inside one, no frames in the section, no
\* stored settings.
StructuralErrors ==
  {"Please select at least one frame",
   "Please select at least one element with position and size",
   "No elements with position and size selected",
   "Please select exactly one element",
   "Selected element is not inside a Section",
   "Please select a Section to update",
   "No elements with position and size found inside the selected section",
   "No elements with position and size found in section",
   "Refresh is only available for sections created or updated with AutoSection"}

\* C5: when Create, Update or Refresh ends on a structural error, positions,
\* sizes, containment, stored settings and the selection are as they were
\* before it ran.
C5_ErrorsChangeNothing ==
  [][last'.notice \in StructuralErrors => doc' = doc /\ selection' = selection]_vars

\* ------------------------------------------------------------ batch
\* The sections of the page, at any depth, whose stored text gives settings.
Carriers(d) ==
  {s \in SectionIds \cap Live(d) : hasStoredData(d, s) /\ JSONparse(d.pluginData[s]).ok}

\* This step is update-all working through the sections.
BatchStep ==
  /\ last'.op = "handleUpdateAllSections"
  /\ remaining' = remaining - 1

\* C6: update-all attempts every section of the page that carries settings
\* exactly once, whatever became of the sections before it, and the succeeded
\* and failed counts it reports add up to the number of these sections.
C6_EachAttemptedOnce ==
  [][BatchStep =>
       LET attempts == last'.attempts
       IN /\ \A i \in 1..Len(attempts) : attempts[i].section \in Carriers(doc)
          /\ \A s \in Carriers(doc) :
               Cardinality({i \in 1..Len(attempts) : attempts[i].section = s}) = 1
          /\ last'.successCount + last'.failCount = Cardinality(Carriers(doc))]_vars

\* The update of the first section threw and the second was updated.
C6_Witness ==
  /\ last.op = "handleUpdateAllSections"
  /\ Len(last.attempts) = 2
  /\ last.attempts[1].result = "throws"
  /\ last.attempts[2].result = "true"
  /\ last.successCount = 1
  /\ last.failCount = 1

\* C7: after update-all, every section it counted as succeeded has the width
\* and height its members and the padding of its stored settings require,
\* sections inside updated sections included.
C7_PaddingAfterBatch ==
  last.op = "handleUpdateAllSections" =>
    \A i \in 1..Len(last.attempts) :
      last.attempts[i].result = "true" =>
        PaddingRelation(doc, last.attempts[i].section,
                        storedMessage(doc, last.attempts[i].section)[1].padding)

\* Origins, sizes, relative positions and membership.
Layout(d) == [children |-> d.children, x |-> d.x, y |-> d.y,
              width |-> d.width, height |-> d.height]

\* The order takes every section before the sections inside it.
OuterFirst(d, order) ==
  \A i, j \in 1..Len(order) :
    i < j => order[j].section \notin Ancestors(d, order[i].section)

C9_StoredVerbatim ==
  (last.op = "handleUpdateSection" /\ ui.open) =>
    LET parsed == JSONparse(doc.pluginData[last.section[1]])
    IN (hasStoredData(doc, last.section[1]) /\ parsed.ok) =>
         ui.init[1] =
           IF parsed.settings = None
           THEN InitMessage("update", None, None, None, None)
           ELSE InitMessage("update", Some(parsed.settings[1].spacing),
                            Some(parsed.settings[1].padding),
                            Some(parsed.settings[1].layout),
                            Some(parsed.settings[1].alignment))

\* The stored spacing is posted where detection would give another value.
C9_Witness ==
  /\ last.op = "handleUpdateSection"
  /\ ui.open
  /\ storedMessage(doc, last.section[1]) # None
  /\ ui.init[1].detectedSpacing = Some(storedMessage(doc, last.section[1])[1].spacing)
  /\ ui.init[1].detectedSpacing \notin
       detectSpacing(absoluteFrames(doc, last.section[1]),
                     findFramesInSection(doc, last.section[1]))

\* The one selected node is, or is inside, a section with frames whose stored
\* text is not empty and does not parse.
MalformedTarget ==
  IF Len(selection) # 1 THEN FALSE
  ELSE IF targetSection = None THEN FALSE
  ELSE /\ doc.pluginData[targetSection[1]].kind = "garbage"
       /\ findFramesInSection(doc, targetSection[1]) # <<>>

\* C10: on a section with frames whose stored text does not parse, Update
\* does not abort and posts an 'init' message detected from the frames;
\* Refresh aborts and leaves positions, sizes and the stored text alone.
C10_MalformedSettings ==
  [][(~ui.open /\ MalformedTarget) =>
       /\ last'.op = "handleUpdateSection"
            => /\ ui'.open
               /\ ui'.init[1] \in updateInitMessagesDetected(doc, targetSection[1])
               /\ doc' = doc
       /\ last'.op = "handleRefreshSection"
            => /\ ~ui'.open
               /\ last'.notice = "Error reading stored settings. Please update the section first."
               /\ doc' = doc]_vars

\* Update has posted detected values for a section with unparseable text.
C10_Witness ==
  /\ last.op = "handleUpdateSection"
  /\ ui.open
  /\ doc.pluginData[last.section[1]].kind = "garbage"
  /\ ui.init[1].currentPadding = Some(roundedPadding(doc, last.section[1]))

\* ------------------------------------------------------------ per-section settings
\* This step is a Create, Update or Refresh that succeeded on section.
AppliesTo(section) ==
  /\ last'.notice \in {"Section created", "Section updated"}
  /\ remaining' = remaining - 1
  /\ last'.section = Some(section)

\* C11: a step that is a successful Create, Update or Refresh on a section
\* leaves the Configuration it applied as that section's stored text; every
\* other step, update-all included, and every step on another section leaves
\* a section's stored text as it was.  So each section's stored text is always
\* the Configuration last applied to it.
C11_OwnLastSettings ==
  [][\A section \in SectionIds :
       IF AppliesTo(section)
       THEN doc'.pluginData[section] = JSONstringify(last'.msg[1])
       ELSE doc'.pluginData[section] = doc.pluginData[section]]_vars

\* A section inside a section, each created with its own settings; the outer
\* one was then updated with settings that differ from both.
C11_Witness ==
  /\ last.notice = "Section updated"
  /\ last.section = Some("s2")
  /\ ParentOf(doc, "s1") = "s2"
  /\ doc.pluginData["s2"] = JSONstringify(last.msg[1])
  /\ doc.pluginData["s1"].kind = "object"
  /\ doc.pluginData["s1"] # doc.pluginData["s2"]
  /\ remaining = 0

\* ------------------------------------------------------------ atomicity
\* The sections this step counts or reports as updated.
CountedAsUpdated ==
  IF remaining' # remaining - 1 THEN {}
  ELSE IF last'.op = "handleUpdateAllSections"
  THEN {last'.attempts[i].section :
          i \in {j \in 1..Len(last'.attempts) : last'.attempts[j].result = "true"}}
  ELSE IF last'.notice = "Section updated" THEN {last'.section[1]}
  ELSE {}

\* C12: a section that Update, Refresh or update-all counts as updated has
\* every frame it had before back inside it, and its settings stored.
C12_CountedOnlyWhenComplete ==
  [][\A section \in CountedAsUpdated :
       /\ Range(findFramesInSection(doc', section)) = Range(findFramesInSection(doc, section))
       /\ doc'.pluginData[section].kind = "object"]_vars

\* ------------------------------------------------------------ failed writes
\* Taken in ascending order of their positions before, each of the frames
\* now starts gap after the end of the one before it.
GapsAmong(before, after, extent, frames, gap) ==
  \E order \in OrdersOf(frames) :
    /\ \A i, j \in 1..Len(order) : i < j => before[order[i]] <= before[order[j]]
    /\ \A i \in 1..(Len(order) - 1) :
         after[order[i + 1]] - (after[order[i]] + extent[order[i]]) = gap

\* This step is an Update or a Refresh along layout in which the position
\* write of some frame of the section failed.
ArrangesAround(layout) ==
  /\ last'.notice = "Section updated"
  /\ remaining' = remaining - 1
  /\ last'.msg[1].layout = layout
  /\ last'.warned # {}

\* The frames of the section before the step whose position can be written.
placedFrames ==
  SelectSeq(findFramesInSection(doc, last'.section[1]), LAMBDA f : f \notin last'.warned)

\* C13: when the position write of a frame fails during a horizontal or
\* vertical arrangement, every other frame of the section is still placed:
\* it is back in the section, and in ascending order of their positions
\* before, each of them starts exactly the spacing after the end of the one
\* placed before it.
C13_OthersStillPlaced ==
  [][/\ (ArrangesAround("horizontal") \/ ArrangesAround("vertical"))
          => Range(placedFrames) \subseteq Range(findFramesInSection(doc', last'.section[1]))
     /\ ArrangesAround("horizontal")
          => GapsAmong(doc.x, doc'.x, doc.width, placedFrames, last'.msg[1].spacing)
     /\ ArrangesAround("vertical")
          => GapsAmong(doc.y, doc'.y, doc.height, placedFrames, last'.msg[1].spacing)]_vars

\* The frame between two others could not be moved; the two others are 10 px
\* apart in the section, where they were 35 px apart.
C13_Witness ==
  /\ last.notice = "Section updated"
  /\ last.warned = {"r2"}
  /\ last.msg[1].layout = "horizontal"
  /\ findFramesInSection(doc, "s1") = <<"r1", "r3">>
  /\ ParentOf(doc, "r2") = Page
  /\ doc.x["r3"] - (doc.x["r1"] + doc.width["r1"]) = Px(10)

\* ------------------------------------------------------------ maintain
\* The position of a node on the page: its x and y plus the origins of the
\* sections around it.
RECURSIVE AbsoluteX(_, _)
AbsoluteX(d, n) ==
  IF ParentOf(d, n) = Page THEN d.x[n] ELSE d.x[n] + AbsoluteX(d, ParentOf(d, n))

RECURSIVE AbsoluteY(_, _)
AbsoluteY(d, n) ==
  IF ParentOf(d, n) = Page THEN d.y[n] ELSE d.y[n] + AbsoluteY(d, ParentOf(d, n))

\* This step is a Create, Update or Refresh with layout maintain in which no
\* position write failed.
Maintains ==
  /\ last'.notice \in {"Section created", "Section updated"}
  /\ remaining' = remaining - 1
  /\ last'.msg[1].layout = "maintain"
  /\ last'.warned = {}

\* C14: Create or Update with layout maintain leaves every member of the
\* section where it was on the page and as large as it was.
C14_MaintainKeepsPlace ==
  [][Maintains =>
       \A f \in Range(findFramesInSection(doc', last'.section[1])) :
         /\ AbsoluteX(doc', f) = AbsoluteX(doc, f)
         /\ AbsoluteY(doc', f) = AbsoluteY(doc, f)
         /\ doc'.width[f] = doc.width[f]
         /\ doc'.height[f] = doc.height[f]]_vars

\* ------------------------------------------------------------ presets: delete, ids
\* This step ends a handler, which posts a message of this type.
Posts(type) ==
  /\ Len(posted') = Len(posted) + 1
  /\ posted'[Len(posted')].type = type

\* C15: a delete-preset request for id p that is answered 'preset-deleted'
\* has removed the presets with id p from the stored collection and left the
\* others, in their order; with no preset of id p the collection is as it was.
C15_DeletesExactlyThat ==
  [][Posts("preset-deleted")
       => presets' = deletedFrom(presets, posted'[Len(posted')].presetId)]_vars

IdsUnique(list) ==
  \A i, j \in 1..Len(list) : list[i].id = list[j].id => i = j

\* C16: no two stored presets have one id, whatever ids are generated; and a
\* request answered 'preset-updated' for id p has left the preset with id p at
\* its place in the collection, under its name.
C16_IdsUniqueUpdateInPlace ==
  [][/\ IdsUnique(presets) => IdsUnique(presets')
     /\ Posts("preset-updated") =>
          LET p == posted'[Len(posted')].presetId
              i == findIndex(presets, p)
          IN /\ i > 0
             /\ Len(presets') >= i
             /\ presets'[i].id = p
             /\ presets'[i].name = presets[i].name]_vars

\* ------------------------------------------------------------ detection: buckets
\* How many of the gaps round to k px, and the values the gaps round to.
BucketSize(gaps, k) == Cardinality({i \in 1..Len(gaps) : MathRound(gaps[i]) = k})

Buckets(gaps) == {MathRound(gaps[i]) : i \in 1..Len(gaps)}

\* The gaps are not all within 2 px of the first; no bucket holds more of
\* them than the bucket of 0, which holds at least 20% of them.
ZeroWins(gaps) ==
  /\ gaps # <<>>
  /\ \E i \in 1..Len(gaps) : Abs(gaps[i] - gaps[1]) > Px(SpacingTolerance)
  /\ 0 \in Buckets(gaps)
  /\ \A k \in Buckets(gaps) : BucketSize(gaps, 0) >= BucketSize(gaps, k)
  /\ 5 * BucketSize(gaps, 0) >= Len(gaps)

\* The non-zero buckets with at least 2 members and a 5% share, and those of
\* them with the most members.
Qualifying(gaps) ==
  {k \in Buckets(gaps) : k > 0 /\ BucketSize(gaps, k) >= 2
                         /\ 20 * BucketSize(gaps, k) >= Len(gaps)}

LargestQualifying(gaps) ==
  {k \in Qualifying(gaps) : \A j \in Qualifying(gaps) : BucketSize(gaps, k) >= BucketSize(gaps, j)}

Tied(gaps) ==
  IF gaps = <<>> \/ \A i \in 1..Len(gaps) : Abs(gaps[i] - gaps[1]) <= Px(SpacingTolerance)
  THEN {}
  ELSE LET most == {k \in Buckets(gaps) :
                      \A j \in Buckets(gaps) : BucketSize(gaps, k) >= BucketSize(gaps, j)}
       IN IF Cardinality(most) >= 2 THEN most ELSE {}

\* What detectSpacing returns when the bucket of winner wins with at least
\* 20% of the gaps: winner, or for winner 0 what C17 (amended) says.
ReturnedFor(gaps, winner, returned) ==
  5 * BucketSize(gaps, winner) >= Len(gaps) =>
    IF winner = 0 /\ Qualifying(gaps) # {} /\ 2 * BucketSize(gaps, 0) < Len(gaps)
    THEN returned \in {Some(k) : k \in LargestQualifying(gaps)}
    ELSE returned = Some(winner)

\* The tied bucket whose value occurs first in the list of gaps.
FirstInserted(gaps) ==
  MathRound(gaps[SetMin({i \in 1..Len(gaps) : MathRound(gaps[i]) \in Tied(gaps)})])

\* C18 (as the spec states it): among several buckets with the largest
\* member count, the one whose rounded value occurs first in the merged list
\* of gaps wins.
C18_FirstInsertedWins ==
  Detected =>
    \A gaps \in RetainedGaps :
      (RetainedGaps = {gaps} /\ Tied(gaps) # {})
        => ReturnedFor(gaps, FirstInserted(gaps), ui.init[1].detectedSpacing)

\* C18 (amended): among several buckets with the largest member count, the
\* one with the smallest rounded value wins, wherever its gaps stand in the
\* merged list.
C18_SmallestWins ==
  Detected =>
    \A gaps \in RetainedGaps :
      (RetainedGaps = {gaps} /\ Tied(gaps) # {})
        => ReturnedFor(gaps, SetMin(Tied(gaps)), ui.init[1].detectedSpacing)

\* Gaps 20, 20, 10, 10, 0: the buckets of 20 and of 10 hold two each, 20 came
\* first, and 10 is returned.
C18_Witness ==
  /\ Detected
  /\ RetainedGaps = {<<Px(20), Px(20), Px(10), Px(10), 0>>}
  /\ ui.init[1].detectedSpacing = Some(Px(10))

\* ------------------------------------------------------------ detection: rows
\* The orders of the frames by y, then x.
OrdersByYThenX(g, frames) ==
  {order \in OrdersOf(frames) :
     \A i, j \in 1..Len(order) :
       i < j => \/ g.y[order[i]] < g.y[order[j]]
                \/ /\ g.y[order[i]] = g.y[order[j]]
                   /\ g.x[order[i]] <= g.x[order[j]]}

\* One scan: a frame joins the current row exactly when its y is no more than
\* 10 px from the y of the row's first frame.
RECURSIVE RowsWithinTen(_, _, _, _)
RowsWithinTen(g, order, rows, currentRow) ==
  IF order = <<>> THEN Append(rows, currentRow)
  ELSE IF Abs(g.y[Head(order)] - g.y[currentRow[1]]) <= Px(RowTolerance)
  THEN RowsWithinTen(g, Tail(order), rows, Append(currentRow, Head(order)))
  ELSE RowsWithinTen(g, Tail(order), Append(rows, currentRow), <<Head(order)>>)

\* The gaps of such rows: within each row between x-adjacent frames, then
\* between consecutive rows, the negative ones discarded.
GapsOfRowsWithinTen(g, frames) ==
  {LET rows == RowsWithinTen(g, Tail(order), <<>>, <<Head(order)>>)
   IN horizontalSpacings(g, rows) \o verticalSpacings(g, rows) :
     order \in OrdersByYThenX(g, frames)}

\* C19: detectSpacing works on the gaps of the rows that one scan of the
\* frames in order of y, then x, forms, a frame joining the current row
\* exactly when its y is no more than 10 px from the y of the row's first
\* frame.
C19_RowsWithinTen ==
  Detected =>
    ui.init[1].detectedSpacing \in
      {spacingFrom(gaps) : gaps \in GapsOfRowsWithinTen(doc, selectedFrames)}

\* ------------------------------------------------------------ layout classification
\* The extents of the box around the selected frames.
SelectedWidth ==
  SetMax({doc.x[f] + doc.width[f] : f \in Range(selectedFrames)})
    - SetMin({doc.x[f] : f \in Range(selectedFrames)})

SelectedHeight ==
  SetMax({doc.y[f] + doc.height[f] : f \in Range(selectedFrames)})
    - SetMin({doc.y[f] : f \in Range(selectedFrames)})

\* The layout for a box: 1.2 is 12 / 10.
LayoutOfBox(width, height) ==
  IF 10 * width > 12 * height THEN "horizontal"
  ELSE IF 10 * height > 12 * width THEN "vertical"
  ELSE "maintain"

\* Every selected frame's edge is within 2 px of the first selected frame's.
EdgesAligned(edge(_)) ==
  \A f \in Range(selectedFrames) :
    Abs(edge(f) - edge(selectedFrames[1])) <= Px(SpacingTolerance)

\* Every selected frame's centre is within 2 px of the mean of the centres.
\* twiceCentre(f) is two times the centre of f; both sides of the comparison
\* are multiplied by two times the number of frames.
CentresAligned(twiceCentre(_)) ==
  LET n == Len(selectedFrames)
      total == SeqSum([i \in 1..n |-> twiceCentre(selectedFrames[i])])
  IN \A f \in Range(selectedFrames) :
       Abs(n * twiceCentre(f) - total) <= 2 * n * Px(SpacingTolerance)

\* Which of the alignments holds for the selected frames.
Holds(alignment) ==
  CASE alignment = "top" -> EdgesAligned(LAMBDA f : doc.y[f])
    [] alignment = "bottom" -> EdgesAligned(LAMBDA f : doc.y[f] + doc.height[f])
    [] alignment = "left" -> EdgesAligned(LAMBDA f : doc.x[f])
    [] alignment = "right" -> EdgesAligned(LAMBDA f : doc.x[f] + doc.width[f])

CentreHolds(layout) ==
  IF layout = "horizontal"
  THEN CentresAligned(LAMBDA f : 2 * doc.y[f] + doc.height[f])
  ELSE CentresAligned(LAMBDA f : 2 * doc.x[f] + doc.width[f])

\* The first of the three alignments of a layout that holds, else the first.
FirstThatHolds(layout, near, far) ==
  IF Holds(near) THEN near
  ELSE IF Holds(far) THEN far
  ELSE IF CentreHolds(layout) THEN "center"
  ELSE near

AlignmentOfLayout(layout) ==
  CASE layout = "horizontal" -> FirstThatHolds(layout, "top", "bottom")
    [] layout = "vertical" -> FirstThatHolds(layout, "left", "right")
    [] layout = "maintain" -> "top"

ValidAlignments(layout) ==
  CASE layout = "horizontal" -> {"top", "bottom", "center"}
    [] layout = "vertical" -> {"left", "right", "center"}
    [] layout = "maintain" -> {"top", "bottom", "center", "left", "right"}

\* C20: for two or more selected frames the detected layout is horizontal
\* when the box around them is more than 1.2 times as wide as high, else
\* vertical when it is more than 1.2 times as high as wide, else maintain; the
\* detected alignment is the first of top, bottom, center (horizontal) or of
\* left, right, center (vertical) that holds within 2 px, else top or left,
\* and so is valid for the detected layout; two frames of equal y in a box
\* that wide give horizontal and top.
C20_LayoutClassified ==
  Detected =>
    LET layout == LayoutOfBox(SelectedWidth, SelectedHeight)
    IN /\ ui.init[1].detectedLayout = Some(layout)
       /\ ui.init[1].detectedAlignment = Some(AlignmentOfLayout(layout))
       /\ ui.init[1].detectedAlignment[1] \in ValidAlignments(layout)
       /\ (/\ Len(selectedFrames) = 2
           /\ doc.y[selectedFrames[1]] = doc.y[selectedFrames[2]]
           /\ layout = "horizontal")
          => ui.init[1].detectedAlignment = Some("top")

\* Two or more frames wider than high together, with bottoms but not tops in
\* line, were selected and Create reported horizontal and bottom.
C20_Witness ==
  /\ Detected
  /\ ~Holds("top")
  /\ ui.init[1].detectedLayout = Some("horizontal")
  /\ ui.init[1].detectedAlignment = Some("bottom")

\* ------------------------------------------------------------ target section
\* The sections around a node, and the one of them no other is around.
EnclosingSections(d, node) == {a \in Ancestors(d, node) : NodeType(a) = "SECTION"}

OutermostSection(d, node) ==
  CHOOSE a \in EnclosingSections(d, node) : EnclosingSections(d, a) = {}

\* This step is the Update or Refresh command run on one selected node that
\* is not a section.
TargetsFromInside ==
  /\ ~ui.open
  /\ last'.op \in {"handleUpdateSection", "handleRefreshSection"}
  /\ Len(selection) = 1
  /\ NodeType(selection[1]) # "SECTION"

\* C21: Update or Refresh run on one selected node that is not a section
\* works on the outermost section around the node, and reports "not inside a
\* Section" only when no section is around it.
C21_OutermostTarget ==
  [][TargetsFromInside =>
       IF EnclosingSections(doc, selection[1]) = {}
       THEN last'.notice = "Selected element is not inside a Section"
       ELSE /\ last'.notice # "Selected element is not inside a Section"
            /\ selection' = <<OutermostSection(doc, selection[1])>>]_vars

\* ------------------------------------------------------------ membership
\* The sections this step worked on as Update, Refresh or update-all.
Operated ==
  IF remaining' # remaining - 1 THEN {}
  ELSE IF last'.op = "handleUpdateAllSections"
  THEN {last'.attempts[i].section : i \in 1..Len(last'.attempts)}
  ELSE IF last'.op \in {"updateSection", "handleRefreshSection"} /\ last'.section # None
  THEN {last'.section[1]}
  ELSE {}

\* This step is a Create that succeeded.
Creates ==
  /\ last'.op = "createSection"
  /\ last'.notice = "Section created"
  /\ remaining' = remaining - 1

\* C22: a Create that succeeds adds exactly one section, whose frames are
\* exactly the selected nodes with position and size; an Update, a Refresh or
\* an update-all leaves every section it worked on with the frames it had.
C22_MembershipPreserved ==
  [][/\ Creates =>
          \E section \in SectionIds :
            /\ Live(doc') \ Live(doc) = {section}
            /\ Range(findFramesInSection(doc', section)) = Range(selectedFrames)
     /\ \A section \in Operated :
          Range(findFramesInSection(doc', section))
            = Range(findFramesInSection(doc, section))]_vars

\* ------------------------------------------------------------ lost updates
Stored(presetId) == \E k \in 1..Len(presets) : presets[k].id = presetId

\* A message of this type about this preset was posted after the i-th.
PostedAfter(i, type, presetId) ==
  \E j \in (i + 1)..Len(posted) :
    posted[j].type = type /\ posted[j].presetId = presetId

\* C23: whatever the order in which the preset handlers run between their
\* awaits, a preset reported 'preset-saved' and not reported deleted since is
\* in the stored collection, and a preset reported 'preset-deleted' and not
\* reported saved since is not.
C23_NoLostPresetUpdates ==
  \A i \in 1..Len(posted) :
    /\ (/\ posted[i].type = "preset-saved"
        /\ ~PostedAfter(i, "preset-deleted", posted[i].presetId))
       => Stored(posted[i].presetId)
    /\ (/\ posted[i].type = "preset-deleted"
        /\ ~PostedAfter(i, "preset-saved", posted[i].presetId))
       => ~Stored(posted[i].presetId)

\* ------------------------------------------------------------ storage failures
\* This step ends the i-th suspended handler with a message.
Ends(i) ==
  /\ Len(posted') = Len(posted) + 1
  /\ pending' = Without(pending, i)

\* C24: a preset request during which a storage read or write failed ends
\* with 'preset-error' and the stored collection as it was: every step that
\* posts 'preset-error' leaves the collection unchanged, and a handler one of
\* whose reads threw posts 'preset-error' and writes nothing.
C24_FailureKeepsPresets ==
  [][\A i \in 1..Len(pending) :
       Ends(i) =>
         LET message == posted'[Len(posted')]
         IN /\ message.type = "preset-error" => presets' = presets
            /\ pending[i].readThrew =>
                 /\ message.type = "preset-error"
                 /\ presets' = presets]_vars

\* ------------------------------------------------------------ padding detection
\* The four components are whole pixels, none negative.
WholeNonNegative(padding) ==
  \A v \in {padding.top, padding.right, padding.bottom, padding.left} :
    v >= 0 /\ v % U = 0

\* The last step was a Create or an Update that succeeded.
JustProduced ==
  /\ last.op \in {"createSection", "updateSection"}
  /\ last.notice \in {"Section created", "Section updated"}

\* C25: for a section just produced by Create or Update with a padding of
\* non-negative whole numbers, the padding that Update computes from the
\* section when it reads no stored Configuration is that padding.
C25_DetectionInvertsPadding ==
  (JustProduced /\ WholeNonNegative(last.msg[1].padding))
    => roundedPadding(doc, last.section[1]) = last.msg[1].padding

====
